---- MODULE Spec2Model ----
(***************************************************************************)
(* Recording supervisor of screenpipe-server (src/bin/screenpipe-server.rs) *)
(* The model follows the `_start_recording` loop, the `recording_task` it   *)
(* spawns, the delayed producers of `initialize_audio_devices`, the          *)
(* restart channel and the device control queue.                             *)
(***************************************************************************)
EXTENDS Integers, Sequences, FiniteSets, TLC

\* ---------------------------------------------------------------- bounds
MaxIter == 2          \* iterations of the supervisor loop that are explored
MaxSignals == 2       \* restart signals the resource monitor sends in a run
MaxTime == 20         \* the clock stops advancing at this many seconds
TickSecs == 5         \* granularity of the clock, in seconds

\* ------------------------------------------------------ program constants
DelaySecs == 15           \* Duration::from_secs(15) in initialize_audio_devices
BackoffSecs == 30         \* Duration::from_secs(30) in the busy branch
ChannelCapacity == 10     \* channel(10)

\* lines 243-267: no --audio-device given, the default input and (on linux)
\* the default output device are recorded
audio_devices == {"default_input", "default_output"}
TaskIds == 1..MaxIter

VARIABLES
    pc,                     \* position of the supervisor in its loop
    iter,                   \* successful try_start count = current iteration
    lock,                   \* holder of the tokio Mutex around RecordingState
    recording_state,        \* the RecordingState behind the Mutex
    recording_task,         \* per iteration: the spawned engine task
    restart_receiver,       \* content of the bounded restart channel
    sent,                   \* restart signals sent so far
    producers,              \* delayed producers still sleeping
    audio_devices_control,  \* the SegQueue of (device, control)
    observed,               \* what the engine side has drained, in order
    published,              \* every command pushed so far, in push order
    now,                    \* the clock, in seconds
    wakeAt,                 \* deadline of the supervisor's backoff sleep
    hist,                   \* history of the current iteration
    cli,                    \* the parsed command line: disable_audio, audio_device
    all_audio_devices,      \* what list_audio_devices() returned
    default_devices,        \* what default_input_device()/default_output_device() yield
    devices_status          \* the HashMap handed to the HTTP server

vars == <<pc, iter, lock, recording_state, recording_task, restart_receiver,
          sent, producers, audio_devices_control, observed, published, now, wakeAt,
          hist, cli, all_audio_devices, default_devices, devices_status>>

setupVars == <<cli, all_audio_devices, default_devices, devices_status>>

\* ------------------------------------------------------------ lock holders
Free == <<"free", 0>>
Sup == <<"_start_recording", 0>>
Task(i) == <<"recording_task", i>>

\* --------------------------------------------------------- RecordingState
RecordingStateNew == [is_running |-> FALSE, cancelling |-> FALSE]

\* cancel(): signals the active engine to stop; no-op when idle
Cancel(rs) == IF rs.is_running THEN [rs EXCEPT !.cancelling = TRUE] ELSE rs

\* reset(): back to Idle
Reset(rs) == [is_running |-> FALSE, cancelling |-> FALSE]

\* ------------------------------------------------------------ the SegQueue
\* a push that lands at the front of the queue
Push_Front(q, x) == <<x>> \o q

Push(q, x) == Append(q, x)
PopValue(q) == Head(q)
PopRest(q) == Tail(q)

DeviceControlOn == [is_running |-> TRUE, is_paused |-> FALSE]
DeviceControlOff == [is_running |-> FALSE, is_paused |-> FALSE]

\* ------------------------------------------------- devices_status of main
\* devices a host may enumerate or a user may name
Devices == {"default_input", "default_output", "usb_mic"}

\* HashMap::insert of the same value under every key of S, one at a time
InsertEach(m, S, v) == [d \in (DOMAIN m) \cup S |-> IF d \in S THEN v ELSE m[d]]

EmptyMap == [d \in {} |-> DeviceControlOff]

\* lines 242-280: the devices pushed to audio_devices
SelectedDevices(c, defaults) ==
    IF c.disable_audio THEN {}
    ELSE IF c.audio_device = {} THEN defaults
    ELSE c.audio_device

\* the loop at 233-240 run after the selection instead of before it
BuildDevicesStatus_EnumeratedLast(all, c, defaults) ==
    InsertEach(InsertEach(EmptyMap, SelectedDevices(c, defaults), DeviceControlOn),
               all, DeviceControlOff)

\* lines 216, 233-240 then 242-280: every enumerated device is inserted as
\* not running, then every selected device is inserted as running
BuildDevicesStatus(all, c, defaults) ==
    InsertEach(InsertEach(EmptyMap, all, DeviceControlOff),
               SelectedDevices(c, defaults), DeviceControlOn)

\* no --disable-audio and no --audio-device
DefaultCli == [disable_audio |-> FALSE, audio_device |-> {}]

Alive(i) == recording_task[i].st \in {"running", "returned", "locked"}

HistNew == [via |-> "none", tie |-> FALSE, resets |-> 0, cancels |-> 0, starts |-> 0,
            cancelTag |-> [i \in TaskIds |-> -1]]

\* the loop's own state before its first pass
LoopInit ==
    /\ iter = 0
    /\ lock = Free
    /\ recording_task = [i \in TaskIds |-> [st |-> "none", result |-> "none"]]
    /\ restart_receiver = <<>>
    /\ sent = 0
    /\ producers = {}
    /\ audio_devices_control = <<>>
    /\ observed = <<>>
    /\ published = <<>>
    /\ now = 0
    /\ wakeAt = 0
    /\ hist = HistNew

\* main has run with the default command line on a host whose default
\* devices are audio_devices
SetupDone ==
    /\ cli = DefaultCli
    /\ all_audio_devices = Devices
    /\ default_devices = audio_devices
    /\ devices_status = BuildDevicesStatus(Devices, DefaultCli, audio_devices)

Init ==
    /\ pc = "top"
    /\ recording_state = RecordingStateNew
    /\ LoopInit
    /\ SetupDone

\* The loop entered with either value of is_running.  The handle of line 301
\* is also given to the engine (line 343); the pass of lines 323-332 is
\* checked against both values it can read under the lock.
InitBusy ==
    /\ pc = "top"
    /\ recording_state \in {RecordingStateNew,
                            [RecordingStateNew EXCEPT !.is_running = TRUE]}
    /\ LoopInit
    /\ SetupDone

\* k zeros: signals sent while no engine was running
Backlog(k) == [j \in 1..k |-> 0]

\* The monitor runs from line 285 and the loop is spawned at line 309, after
\* the database has been opened: the first pass may find signals already
\* queued, at most n of them.  sent counts the signals sent after that.
InitQueued(n) ==
    /\ pc = "top"
    /\ recording_state = RecordingStateNew
    /\ iter = 0
    /\ lock = Free
    /\ recording_task = [i \in TaskIds |-> [st |-> "none", result |-> "none"]]
    /\ restart_receiver \in {Backlog(k) : k \in 0..n}
    /\ sent = 0
    /\ producers = {}
    /\ audio_devices_control = <<>>
    /\ observed = <<>>
    /\ published = <<>>
    /\ now = 0
    /\ wakeAt = 0
    /\ hist = HistNew
    /\ SetupDone

\* up to a full channel
InitBacklog == InitQueued(ChannelCapacity)

\* as many signals as the monitor sends in a run
InitRestarts == InitQueued(MaxSignals)

\* main before line 216, for any command line and any host
InitConfig ==
    /\ pc = "main"
    /\ recording_state = RecordingStateNew
    /\ LoopInit
    /\ cli \in [disable_audio : BOOLEAN, audio_device : SUBSET Devices]
    /\ all_audio_devices \in SUBSET Devices
    /\ default_devices \in SUBSET audio_devices
    /\ devices_status = EmptyMap

\* BuildDevicesStatus as main runs it, lines 215-280
MainDevicesStatus ==
    /\ pc = "main"
    /\ devices_status' = BuildDevicesStatus(all_audio_devices, cli, default_devices)
    /\ pc' = "top"
    /\ UNCHANGED <<iter, lock, recording_state, recording_task, restart_receiver,
                   sent, producers, audio_devices_control, observed, published, now,
                   wakeAt, hist, cli, all_audio_devices, default_devices>>

ConfigSpec == InitConfig /\ [][MainDevicesStatus]_vars

\* ------------------------------------------------------------- supervisor
\* line 324: recording_state.lock().await at the top of the loop, reached
\* from the end of the previous pass or from `continue` after the backoff
SupLock ==
    /\ pc \in {"top", "backoff"}
    /\ pc = "backoff" => now >= wakeAt
    /\ iter < MaxIter
    /\ lock = Free
    /\ lock' = Sup
    /\ pc' = "check"
    /\ UNCHANGED <<iter, recording_state, recording_task, restart_receiver, sent,
                   producers, audio_devices_control, observed, published, now, wakeAt, hist>>
    /\ UNCHANGED setupVars

\* SupTryStart whose busy branch retries at once, without the sleep of line 328
SupTryStart_NoSleep ==
    /\ pc = "check"
    /\ lock = Sup
    /\ lock' = Free
    /\ IF recording_state.is_running
       THEN /\ pc' = "backoff"
            /\ wakeAt' = now
            /\ UNCHANGED <<iter, recording_state, hist>>
       ELSE /\ recording_state' = [recording_state EXCEPT !.is_running = TRUE]
            /\ iter' = iter + 1
            /\ pc' = "init"
            /\ hist' = [hist EXCEPT !.via = "none", !.tie = FALSE, !.resets = 0, !.cancels = 0,
                                    !.starts = @ + 1]
            /\ UNCHANGED wakeAt
    /\ UNCHANGED <<recording_task, restart_receiver, sent, producers,
                   audio_devices_control, observed, published, now>>
    /\ UNCHANGED setupVars

\* lines 325-332: the check-and-set under the lock
SupTryStart ==
    /\ pc = "check"
    /\ lock = Sup
    /\ lock' = Free
    /\ IF recording_state.is_running
       THEN /\ pc' = "backoff"
            /\ wakeAt' = now + BackoffSecs
            /\ UNCHANGED <<iter, recording_state, hist>>
       ELSE /\ recording_state' = [recording_state EXCEPT !.is_running = TRUE]
            /\ iter' = iter + 1
            /\ pc' = "init"
            /\ hist' = [hist EXCEPT !.via = "none", !.tie = FALSE, !.resets = 0, !.cancels = 0,
                                    !.starts = @ + 1]
            /\ UNCHANGED wakeAt
    /\ UNCHANGED <<recording_task, restart_receiver, sent, producers,
                   audio_devices_control, observed, published, now>>
    /\ UNCHANGED setupVars

\* initialize_audio_devices where the producers of earlier iterations are
\* aborted when the devices are initialized again
initialize_audio_devices_AbortOld ==
    /\ pc = "init"
    /\ producers' =
          {[device |-> d, control |-> DeviceControlOn, iter |-> iter, reg |-> now] :
              d \in audio_devices}
    /\ pc' = "spawn"
    /\ UNCHANGED <<iter, lock, recording_state, recording_task, restart_receiver,
                   sent, audio_devices_control, observed, published, now, wakeAt, hist>>
    /\ UNCHANGED setupVars

\* lines 134-153 called at line 335: one delayed producer per device
initialize_audio_devices ==
    /\ pc = "init"
    /\ producers' = producers \cup
          {[device |-> d, control |-> DeviceControlOn, iter |-> iter, reg |-> now] :
              d \in audio_devices}
    /\ pc' = "spawn"
    /\ UNCHANGED <<iter, lock, recording_state, recording_task, restart_receiver,
                   sent, audio_devices_control, observed, published, now, wakeAt, hist>>
    /\ UNCHANGED setupVars

\* line 337: tokio::spawn of the engine task
SupSpawn ==
    /\ pc = "spawn"
    /\ recording_task' = [recording_task EXCEPT ![iter] = [st |-> "running", result |-> "none"]]
    /\ pc' = "select"
    /\ UNCHANGED <<iter, lock, recording_state, restart_receiver, sent, producers,
                   audio_devices_control, observed, published, now, wakeAt, hist>>
    /\ UNCHANGED setupVars

\* SupSelectTask with the pass ended by `continue`, that is without reset()
SupSelectTask_SkipReset ==
    /\ pc = "select"
    /\ recording_task[iter].st = "done"
    /\ pc' = "top"
    /\ hist' = [hist EXCEPT !.via = "task", !.tie = restart_receiver # <<>>]
    /\ UNCHANGED <<iter, lock, recording_state, recording_task, restart_receiver,
                   sent, producers, audio_devices_control, observed, published, now, wakeAt>>
    /\ UNCHANGED setupVars

\* SupSelectTask with an engine error escalated out of the loop
SupSelectTask_Escalate ==
    /\ pc = "select"
    /\ recording_task[iter].st = "done"
    /\ pc' = IF recording_task[iter].result = "err" THEN "exit" ELSE "reset"
    /\ hist' = [hist EXCEPT !.via = "task", !.tie = restart_receiver # <<>>]
    /\ UNCHANGED <<iter, lock, recording_state, recording_task, restart_receiver,
                   sent, producers, audio_devices_control, observed, published, now, wakeAt>>
    /\ UNCHANGED setupVars

\* SupSelectTask where the abandoned recv() takes a queued signal with it
SupSelectTask_DropSignal ==
    /\ pc = "select"
    /\ recording_task[iter].st = "done"
    /\ pc' = "reset"
    /\ restart_receiver' = IF restart_receiver = <<>> THEN <<>> ELSE Tail(restart_receiver)
    /\ hist' = [hist EXCEPT !.via = "task", !.tie = restart_receiver # <<>>]
    /\ UNCHANGED <<iter, lock, recording_state, recording_task,
                   sent, producers, audio_devices_control, observed, published, now, wakeAt>>
    /\ UNCHANGED setupVars

\* lines 360-363: the join handle of this iteration's task is ready
SupSelectTask ==
    /\ pc = "select"
    /\ recording_task[iter].st = "done"
    /\ pc' = "reset"
    /\ hist' = [hist EXCEPT !.via = "task", !.tie = restart_receiver # <<>>]
    /\ UNCHANGED <<iter, lock, recording_state, recording_task, restart_receiver,
                   sent, producers, audio_devices_control, observed, published, now, wakeAt>>
    /\ UNCHANGED setupVars

\* SupSelectRestart with the signal consumed and no cancel() made
SupSelectRestart_NoCancel ==
    /\ pc = "select"
    /\ restart_receiver # <<>>
    /\ restart_receiver' = Tail(restart_receiver)
    /\ pc' = "reset"
    /\ hist' = [hist EXCEPT !.via = "restart",
                            !.tie = recording_task[iter].st = "done",
                            !.cancelTag[iter] = Head(restart_receiver)]
    /\ UNCHANGED <<iter, lock, recording_state, recording_task, sent, producers,
                   audio_devices_control, observed, published, now, wakeAt>>
    /\ UNCHANGED setupVars

\* SupSelectRestart with every queued signal taken at once
SupSelectRestart_DrainAll ==
    /\ pc = "select"
    /\ restart_receiver # <<>>
    /\ restart_receiver' = <<>>
    /\ pc' = "cancel1"
    /\ hist' = [hist EXCEPT !.via = "restart",
                            !.tie = recording_task[iter].st = "done",
                            !.cancelTag[iter] = Head(restart_receiver)]
    /\ UNCHANGED <<iter, lock, recording_state, recording_task, sent, producers,
                   audio_devices_control, observed, published, now, wakeAt>>
    /\ UNCHANGED setupVars

\* lines 364-365: a restart signal is received; the join handle is dropped,
\* which detaches the task without stopping it
SupSelectRestart ==
    /\ pc = "select"
    /\ restart_receiver # <<>>
    /\ restart_receiver' = Tail(restart_receiver)
    /\ pc' = "cancel1"
    /\ hist' = [hist EXCEPT !.via = "restart",
                            !.tie = recording_task[iter].st = "done",
                            !.cancelTag[iter] = Head(restart_receiver)]
    /\ UNCHANGED <<iter, lock, recording_state, recording_task, sent, producers,
                   audio_devices_control, observed, published, now, wakeAt>>
    /\ UNCHANGED setupVars

\* line 366: recording_state_clone.lock().await
SupCancel1Lock ==
    /\ pc = "cancel1"
    /\ lock = Free
    /\ lock' = Sup
    /\ pc' = "cancel1_held"
    /\ UNCHANGED <<iter, recording_state, recording_task, restart_receiver, sent,
                   producers, audio_devices_control, observed, published, now, wakeAt, hist>>
    /\ UNCHANGED setupVars

\* SupCancel1 with drop(state) left out: the guard is still held at line 369
SupCancel1_NoDrop ==
    /\ pc = "cancel1_held"
    /\ lock = Sup
    /\ recording_state' = Cancel(recording_state)
    /\ pc' = "cancel2"
    /\ hist' = [hist EXCEPT !.cancels = @ + 1]
    /\ UNCHANGED <<iter, lock, recording_task, restart_receiver, sent, producers,
                   audio_devices_control, observed, published, now, wakeAt>>
    /\ UNCHANGED setupVars

\* lines 367-368: state.cancel(); drop(state)
SupCancel1 ==
    /\ pc = "cancel1_held"
    /\ lock = Sup
    /\ recording_state' = Cancel(recording_state)
    /\ lock' = Free
    /\ pc' = "cancel2"
    /\ hist' = [hist EXCEPT !.cancels = @ + 1]
    /\ UNCHANGED <<iter, recording_task, restart_receiver, sent, producers,
                   audio_devices_control, observed, published, now, wakeAt>>
    /\ UNCHANGED setupVars

\* line 369: recording_state_clone_2.lock().await
SupCancel2Lock ==
    /\ pc = "cancel2"
    /\ lock = Free
    /\ lock' = Sup
    /\ pc' = "cancel2_held"
    /\ UNCHANGED <<iter, recording_state, recording_task, restart_receiver, sent,
                   producers, audio_devices_control, observed, published, now, wakeAt, hist>>
    /\ UNCHANGED setupVars

\* SupCancel2 with the pass ended by `continue`, that is without reset()
SupCancel2_SkipReset ==
    /\ pc = "cancel2_held"
    /\ lock = Sup
    /\ recording_state' = Cancel(recording_state)
    /\ lock' = Free
    /\ pc' = "top"
    /\ UNCHANGED <<iter, recording_task, restart_receiver, sent, producers,
                   audio_devices_control, observed, published, now, wakeAt, hist>>
    /\ UNCHANGED setupVars

\* SupCancel2 with reset() called on the second handle instead of cancel()
SupCancel2_Reset ==
    /\ pc = "cancel2_held"
    /\ lock = Sup
    /\ recording_state' = Reset(recording_state)
    /\ lock' = Free
    /\ pc' = "reset"
    /\ UNCHANGED <<iter, recording_task, restart_receiver, sent, producers,
                   audio_devices_control, observed, published, now, wakeAt, hist>>
    /\ UNCHANGED setupVars

\* line 369: .cancel() on the temporary guard, dropped at the end of the statement
SupCancel2 ==
    /\ pc = "cancel2_held"
    /\ lock = Sup
    /\ recording_state' = Cancel(recording_state)
    /\ lock' = Free
    /\ pc' = "reset"
    /\ hist' = [hist EXCEPT !.cancels = @ + 1]
    /\ UNCHANGED <<iter, recording_task, restart_receiver, sent, producers,
                   audio_devices_control, observed, published, now, wakeAt>>
    /\ UNCHANGED setupVars

\* line 378: recording_state_clone_3.lock().await
SupResetLock ==
    /\ pc = "reset"
    /\ lock = Free
    /\ lock' = Sup
    /\ pc' = "reset_held"
    /\ UNCHANGED <<iter, recording_state, recording_task, restart_receiver, sent,
                   producers, audio_devices_control, observed, published, now, wakeAt, hist>>
    /\ UNCHANGED setupVars

\* lines 379-380: state.reset(), guard dropped, back to the top of the loop
SupReset ==
    /\ pc = "reset_held"
    /\ lock = Sup
    /\ recording_state' = Reset(recording_state)
    /\ lock' = Free
    /\ pc' = "top"
    /\ hist' = [hist EXCEPT !.resets = @ + 1, !.starts = 0]
    /\ UNCHANGED <<iter, recording_task, restart_receiver, sent, producers,
                   audio_devices_control, observed, published, now, wakeAt>>
    /\ UNCHANGED setupVars

Supervisor ==
    \/ SupLock
    \/ SupTryStart
    \/ initialize_audio_devices
    \/ SupSpawn
    \/ SupSelectTask
    \/ SupSelectRestart
    \/ SupCancel1Lock
    \/ SupCancel1
    \/ SupCancel2Lock
    \/ SupCancel2
    \/ SupResetLock
    \/ SupReset

\* ------------------------------------------------------------ engine task
\* lines 338-354: start_continuous_recording returns, with Ok or Err
TaskReturn(i, r) ==
    /\ recording_task[i].st = "running"
    /\ recording_task' = [recording_task EXCEPT ![i] = [st |-> "returned", result |-> r]]
    /\ UNCHANGED <<pc, iter, lock, recording_state, restart_receiver, sent, producers,
                   audio_devices_control, observed, published, now, wakeAt, hist>>
    /\ UNCHANGED setupVars

\* line 356: recording_state.lock().await inside the task
TaskLock(i) ==
    /\ recording_task[i].st = "returned"
    /\ lock = Free
    /\ lock' = Task(i)
    /\ recording_task' = [recording_task EXCEPT ![i].st = "locked"]
    /\ UNCHANGED <<pc, iter, recording_state, restart_receiver, sent, producers,
                   audio_devices_control, observed, published, now, wakeAt, hist>>
    /\ UNCHANGED setupVars

\* lines 357-358: state.is_running = false; the task ends
TaskClear(i) ==
    /\ recording_task[i].st = "locked"
    /\ lock = Task(i)
    /\ recording_state' = [recording_state EXCEPT !.is_running = FALSE]
    /\ lock' = Free
    /\ recording_task' = [recording_task EXCEPT ![i].st = "done"]
    /\ UNCHANGED <<pc, iter, restart_receiver, sent, producers,
                   audio_devices_control, observed, published, now, wakeAt, hist>>
    /\ UNCHANGED setupVars

\* the engine side pops the next command of the queue
TaskDrain ==
    /\ \E i \in TaskIds : recording_task[i].st = "running"
    /\ audio_devices_control # <<>>
    /\ observed' = Append(observed, PopValue(audio_devices_control))
    /\ audio_devices_control' = PopRest(audio_devices_control)
    /\ UNCHANGED <<pc, iter, lock, recording_state, recording_task, restart_receiver,
                   sent, producers, published, now, wakeAt, hist>>
    /\ UNCHANGED setupVars

\* ------------------------------------------------------ delayed producers
\* ProducerPush with the sleep left out
ProducerPush_NoSleep(p) ==
    /\ p \in producers
    /\ audio_devices_control' = Push(audio_devices_control, p)
    /\ published' = Append(published, p)
    /\ producers' = producers \ {p}
    /\ UNCHANGED <<pc, iter, lock, recording_state, recording_task, restart_receiver,
                   sent, observed, now, wakeAt, hist>>
    /\ UNCHANGED setupVars

\* lines 148-151: sleep(15 s), then push
ProducerPush(p) ==
    /\ p \in producers
    /\ now >= p.reg + DelaySecs
    /\ audio_devices_control' = Push(audio_devices_control, p)
    /\ published' = Append(published, p)
    /\ producers' = producers \ {p}
    /\ UNCHANGED <<pc, iter, lock, recording_state, recording_task, restart_receiver,
                   sent, observed, now, wakeAt, hist>>
    /\ UNCHANGED setupVars

\* ------------------------------------------------------- resource monitor
\* lines 282-285: the monitor owns restart_sender; a signal is tagged with the
\* iteration whose engine is running when it is sent (0: none is)
SignalTag == IF iter > 0 /\ Alive(iter) THEN iter ELSE 0

\* a signal is accepted only while the channel of line 282 has room
MonitorSend ==
    /\ sent < MaxSignals
    /\ Len(restart_receiver) < ChannelCapacity
    /\ restart_receiver' = Append(restart_receiver, SignalTag)
    /\ sent' = sent + 1
    /\ UNCHANGED <<pc, iter, lock, recording_state, recording_task, producers,
                   audio_devices_control, observed, published, now, wakeAt, hist>>
    /\ UNCHANGED setupVars

\* ------------------------------------------------------------------ clock
Tick ==
    /\ now < MaxTime
    /\ now' = now + TickSecs
    /\ UNCHANGED <<pc, iter, lock, recording_state, recording_task, restart_receiver,
                   sent, producers, audio_devices_control, observed, published,
                   wakeAt, hist>>
    /\ UNCHANGED setupVars

\* line 328: tokio::time::sleep while the deadline has not passed
SupBackoffSleep ==
    /\ pc = "backoff"
    /\ now < wakeAt
    /\ now < MaxTime + BackoffSecs
    /\ now' = now + TickSecs
    /\ UNCHANGED <<pc, iter, lock, recording_state, recording_task, restart_receiver,
                   sent, producers, audio_devices_control, observed, published,
                   wakeAt, hist>>
    /\ UNCHANGED setupVars

\* The supervisor, its engine tasks and the resource monitor.  The queue and
\* the clock never feed back into these (no guard above reads them except the
\* backoff deadline), so they stay as Init left them in this specification.
Tasks ==
    \/ \E i \in TaskIds, r \in {"ok", "err"} : TaskReturn(i, r)
    \/ \E i \in TaskIds : TaskLock(i)
    \/ \E i \in TaskIds : TaskClear(i)

Next ==
    \/ Supervisor
    \/ Tasks
    \/ MonitorSend

Spec == Init /\ [][Next]_vars

\* the loop entering its first pass behind a backlog of signals
BacklogSpec == InitBacklog /\ [][Next]_vars

\* the loop with the backoff sleep, entered busy or idle
NextBusy == Supervisor \/ Tasks \/ MonitorSend \/ SupBackoffSleep

BusySpec == InitBusy /\ [][NextBusy]_vars

\* tokio schedules every ready task and its Mutex is FIFO-fair: a step of the
\* supervisor or of a returned task that stays possible is eventually taken.
\* Nothing is assumed of the engine returning or of the monitor sending.
FairSpec ==
    /\ Spec
    /\ WF_vars(Supervisor)
    /\ \A i \in TaskIds : WF_vars(TaskLock(i)) /\ WF_vars(TaskClear(i))

\* The queue side: the delayed producers, the clock and the draining engine,
\* with the resource monitor silent (--self-healing off), so that iterations
\* end by the engine returning, which may happen at any moment.
SupervisorNoRestart ==
    \/ SupLock
    \/ SupTryStart
    \/ initialize_audio_devices
    \/ SupSpawn
    \/ SupSelectTask
    \/ SupResetLock
    \/ SupReset

NextBus ==
    \/ SupervisorNoRestart
    \/ Tasks
    \/ TaskDrain
    \/ \E p \in producers : ProducerPush(p)
    \/ Tick

BusSpec == Init /\ [][NextBus]_vars

\* The queue side again, now with engines that never return and iterations
\* that end only by a restart signal already waiting in the channel.
SupervisorRestartOnly ==
    \/ SupLock
    \/ SupTryStart
    \/ initialize_audio_devices
    \/ SupSpawn
    \/ SupSelectRestart
    \/ SupCancel1Lock
    \/ SupCancel1
    \/ SupCancel2Lock
    \/ SupCancel2
    \/ SupResetLock
    \/ SupReset

NextRestartBus ==
    \/ SupervisorRestartOnly
    \/ TaskDrain
    \/ \E p \in producers : ProducerPush(p)
    \/ Tick

RestartBusSpec == InitRestarts /\ [][NextRestartBus]_vars

\* ------------------------------------------------------------------ claims
AliveTasks == {i \in TaskIds : Alive(i)}

\* C1: in every reachable state at most one capture-engine task is alive
\* (spawned and not yet returned), also when a restart signal wins the race.
C1_AtMostOneTaskAlive == Cardinality(AliveTasks) <= 1

\* C2: between a successful try_start and the matching reset() no other
\* try_start succeeds, so no second engine task is spawned in between.
C2_SingleStartPerReset ==
    /\ hist.starts <= 1
    /\ hist.starts = 1 <=> pc \notin {"top", "check", "backoff"}
    /\ \A i \in TaskIds : recording_task[i].st # "none" => i <= iter

C2_Witness ==
    /\ iter = 2
    /\ pc = "select"
    /\ hist.starts = 1
    /\ recording_task[1].st # "none"

\* C3: whenever the lock is free, is_running holds exactly when the engine
\* task of the current iteration has been spawned (or is being spawned: the
\* flag is set just before the spawn) and has not yet reported completion.
C3_RunningIffTaskAlive ==
    lock = Free =>
        (recording_state.is_running <=>
            /\ iter > 0
            /\ \/ pc \in {"init", "spawn"}
               \/ Alive(iter))

\* C6: restart signals sent while one engine instance is running collapse
\* into one cancellation: if one of them cancelled that instance, none of
\* the others cancels the engine of a later iteration.
C6_SignalsCollapse ==
    \A j \in TaskIds :
        LET t == hist.cancelTag[j] IN
            (t >= 1 /\ t # j) => hist.cancelTag[t] # t

\* C10: cancel() is idempotent: the second cancel() of the restart branch
\* leaves the Recording State as the first call left it, a cancel() on an
\* idle Recording State changes nothing, and a further call would not either.
C10_CancelIdempotent ==
    [][/\ (pc = "cancel2_held" /\ pc' = "reset") =>
            /\ recording_state' = recording_state
            /\ Cancel(recording_state') = recording_state'
       /\ (pc = "cancel1_held" /\ pc' = "cancel2" /\ ~recording_state.is_running) =>
            recording_state' = recording_state]_vars

C10_Witness ==
    /\ pc = "reset"
    /\ hist.via = "restart"
    /\ recording_state.cancelling

\* the race of an iteration can be decided: its task has ended or a signal waits
RaceReady ==
    /\ pc = "select"
    /\ \/ recording_task[iter].st = "done"
       \/ restart_receiver # <<>>

\* C4: an iteration that reaches the race step and whose race is decided, by
\* the engine's completion or by a restart signal, eventually calls reset(),
\* and reset() is called exactly once per iteration.
C4_ResetExactlyOnce ==
    /\ [](/\ hist.resets <= 1
          /\ iter > 0 => (hist.resets = 1 <=> pc \in {"top", "check", "backoff"}))
    /\ \A i \in TaskIds :
          (iter = i /\ RaceReady) ~> (iter = i /\ hist.resets = 1)

C4_Witness ==
    /\ pc = "top"
    /\ iter = 2
    /\ hist.resets = 1
    /\ hist.via = "task"

\* C5: if the engine of an iteration never completes and a restart signal is
\* there while the supervisor is in the race step, cancel() is invoked (twice)
\* and reset() follows through the restart branch, the engine still running,
\* and the supervisor is back at the top of the loop.
RestartedWhileRunning(i) ==
    /\ iter = i
    /\ pc = "top"
    /\ hist.via = "restart"
    /\ hist.cancels = 2
    /\ hist.resets = 1
    /\ ~recording_state.is_running

C5_RestartCancelsBlockedEngine ==
    \A i \in TaskIds :
        (iter = i /\ pc = "select" /\ restart_receiver # <<>>
                  /\ recording_task[i].st = "running")
            ~> (recording_task[i].st # "running" \/ RestartedWhileRunning(i))

C5_Witness ==
    /\ RestartedWhileRunning(1)
    /\ recording_task[1].st = "running"

\* C7: an engine that returns an error is handled like one that returns
\* success: is_running is cleared, reset() is called, the loop is back at its
\* top and a new iteration begins; the supervisor never stops: wherever it is,
\* it reaches the top of the loop again once the race can be decided.
RaceCanResolve ==
    \/ recording_task[iter].st \in {"returned", "locked", "done"}
    \/ restart_receiver # <<>>

AfterRace == {"cancel1", "cancel1_held", "cancel2", "cancel2_held", "reset", "reset_held"}

C7_ErrorRestartsLoop ==
    /\ \A i \in TaskIds, r \in {"ok", "err"} :
          (iter = i /\ hist.starts = 1 /\ recording_task[i].result = r)
              ~> (iter = i /\ pc = "top" /\ hist.resets = 1
                           /\ ~recording_state.is_running)
    /\ \A i \in 1..(MaxIter - 1), r \in {"ok", "err"} :
          (iter = i /\ recording_task[i].result = r) ~> (iter = i + 1)
    /\ (pc \in AfterRace \/ (pc = "select" /\ RaceCanResolve)) ~> (pc = "top")

C7_Witness ==
    /\ iter = 2
    /\ pc = "select"
    /\ recording_task[1] = [st |-> "done", result |-> "err"]
    /\ hist.starts = 1

\* C8: a command whose producer was scheduled at time reg is on the queue (or
\* already drained from it) only at times >= reg + 15 s.
SeqRange(q) == {q[k] : k \in 1..Len(q)}

C8_DelayedActivation ==
    \A e \in SeqRange(audio_devices_control) \cup SeqRange(observed) :
        now >= e.reg + DelaySecs

C8_Witness ==
    \E e \in SeqRange(audio_devices_control) : e.iter = 2 /\ e.reg > 0

\* C9: per device the queue is FIFO: the commands of one device are drained
\* in the order in which they were pushed.
OfDevice(q, d) == SelectSeq(q, LAMBDA e : e.device = d)
IsPrefix(a, b) == Len(a) <= Len(b) /\ SubSeq(b, 1, Len(a)) = a

C9_FifoPerDevice ==
    \A d \in audio_devices : IsPrefix(OfDevice(observed, d), OfDevice(published, d))

C9_Witness ==
    \E d \in audio_devices : Len(OfDevice(observed, d)) >= 2

\* C12: when a restart signal is pending at the moment the engine task's
\* completion is ready, whichever branch the race takes, the iteration makes
\* exactly one reset(), after which is_running is false and no engine task
\* of that iteration is alive.
C12_TieConvergesOnReset ==
    hist.tie =>
        /\ hist.resets <= 1
        /\ pc = "top" =>
              /\ hist.resets = 1
              /\ ~recording_state.is_running
              /\ ~Alive(iter)

C12_Witness ==
    /\ hist.tie
    /\ hist.via = "restart"
    /\ pc = "top"
    /\ hist.resets = 1

\* C14: per iteration try_start precedes the spawn, reset() follows the
\* completion or the cancel(), the next try_start follows the reset(), and
\* no two iterations overlap: once iteration i+1 has started, the engine
\* task of iteration i is neither running nor about to write is_running.
C14_NoIterationOverlap ==
    /\ \A i \in TaskIds : recording_task[i].st # "none" => i <= iter
    /\ pc \in {"init", "spawn"} => recording_task[iter].st = "none"
    /\ pc \in {"reset", "reset_held"} => hist.via # "none"
    /\ pc = "check" => (iter > 0 => hist.resets = 1)
    /\ \A i \in TaskIds : i < iter => recording_task[i].st = "done"

\* C17: whenever the supervisor holds the lock at the top of the loop,
\* is_running is false, so the busy branch and its backoff are never taken.
C17_NeverBusy ==
    /\ pc \in {"top", "check"} => ~recording_state.is_running
    /\ pc # "backoff"

C17_Witness ==
    /\ pc = "check"
    /\ iter = 1
    /\ Alive(1)

\* C18: an engine task writes is_running = false only while the supervisor
\* is still in the iteration that spawned it, never under the engine of a
\* later iteration.
C18_ClearOnlyInOwnIteration ==
    [][\A i \in TaskIds :
          (recording_task[i].st = "locked" /\ recording_task'[i].st = "done") =>
              iter = i]_vars

\* C19: restart signals are consumed only in the race step, one per
\* iteration, so the signals consumed never outnumber the iterations that
\* reached the race step; a signal not consumed stays in the channel.
Spawned == {i \in TaskIds : recording_task[i].st # "none"}
Cancelled == {i \in TaskIds : hist.cancelTag[i] # -1}

C19_OneSignalPerRace ==
    /\ [](/\ sent - Len(restart_receiver) = Cardinality(Cancelled)
          /\ Cancelled \subseteq Spawned)
    /\ [][(restart_receiver' # restart_receiver
              /\ Len(restart_receiver') <= Len(restart_receiver)) =>
            /\ pc = "select"
            /\ pc' = "cancel1"
            /\ restart_receiver' = Tail(restart_receiver)]_vars

C19_Witness ==
    /\ pc = "select"
    /\ iter = 2
    /\ hist.cancelTag[1] = -1
    /\ restart_receiver # <<>>
    /\ recording_task[1].st = "done"

\* C20: the lock never deadlocks: the supervisor holds it exactly in its four
\* critical sections, so it never requests it while holding it and never
\* holds it across the backoff sleep or the race wait; a task holds it exactly
\* while clearing the flag; and every lock request is eventually granted.
Held == {"check", "cancel1_held", "cancel2_held", "reset_held"}
Requesting == {"backoff", "cancel1", "cancel2", "reset"}

C20_LockNeverDeadlocks ==
    /\ [](/\ lock = Sup <=> pc \in Held
          /\ \A i \in TaskIds : lock = Task(i) <=> recording_task[i].st = "locked")
    /\ (pc \in Requesting \/ (pc = "top" /\ iter < MaxIter)) ~> (lock = Sup)
    /\ \A i \in TaskIds :
          (recording_task[i].st = "returned") ~> (lock = Task(i))

C20_Witness ==
    /\ pc = "cancel2"
    /\ \E i \in TaskIds : lock = Task(i)

\* C11: when the check under the lock finds is_running true, the supervisor
\* leaves the recording state unchanged, releases the lock, spawns no task and
\* registers no device command, sleeps until 30 s have passed and then takes
\* the lock again for a new check; the loop is never left.
C11_BusyBacksOff ==
    [][ /\ (pc = "check" /\ recording_state.is_running) =>
              /\ recording_state' = recording_state
              /\ recording_task' = recording_task
              /\ producers' = producers
              /\ iter' = iter
              /\ pc' \in {"check", "backoff"}
              /\ pc' = "backoff" =>
                    (lock' = Free /\ wakeAt' = now + BackoffSecs)
        /\ pc = "backoff" =>
              /\ recording_state' = recording_state
              /\ recording_task' = recording_task
              /\ producers' = producers
              /\ iter' = iter
              /\ wakeAt' = wakeAt
              /\ pc' \in {"backoff", "check"}
              /\ pc' = "check" => (now >= wakeAt /\ lock' = Sup)
      ]_vars

C11_Witness ==
    /\ pc = "check"
    /\ recording_state.is_running
    /\ wakeAt = BackoffSecs
    /\ now >= wakeAt
    /\ \A i \in TaskIds : recording_task[i].st = "none"
    /\ producers = {}

\* C16: the restart channel never holds more than 10 signals; a signal is
\* added only at its back and only while there is room, and the only removal
\* is of the oldest signal by the receive branch of the race step: signals
\* queued while the supervisor is elsewhere stay queued, in order.
C16_BoundedAndLossless ==
    [][ /\ Len(restart_receiver) <= ChannelCapacity
        /\ Len(restart_receiver') <= ChannelCapacity
        /\ \/ restart_receiver' = restart_receiver
           \/ /\ Len(restart_receiver) < ChannelCapacity
              /\ \E t \in 0..MaxIter : restart_receiver' = Append(restart_receiver, t)
           \/ /\ pc = "select"
              /\ pc' = "cancel1"
              /\ restart_receiver # <<>>
              /\ restart_receiver' = Tail(restart_receiver)
        /\ pc # "select" => Len(restart_receiver') >= Len(restart_receiver)
      ]_vars

C16_Witness ==
    /\ Len(restart_receiver) = ChannelCapacity
    /\ sent > 0
    /\ hist.via = "restart"
    /\ pc = "reset"

\* C15: for every iteration that has passed try_start and initialized its
\* devices, each device has exactly one command of that iteration, either
\* still waiting out its delay or published once, with value running and not
\* paused; a command whose delay has elapsed can always be published,
\* whatever the queue holds; cancel() and reset() remove no waiting command,
\* so that once none is waiting each device has one published command per
\* such iteration.
Registered == {i \in 1..iter : i < iter \/ pc # "init"}
Waiting(d, i) == {p \in producers : p.device = d /\ p.iter = i}
PublishedAt(d, i) == {k \in 1..Len(published) : published[k].device = d /\ published[k].iter = i}

C15_OneCommandPerIteration ==
    /\ \A d \in audio_devices, i \in Registered :
          Cardinality(Waiting(d, i)) + Cardinality(PublishedAt(d, i)) = 1
    /\ \A e \in producers \cup SeqRange(published) :
          /\ e.device \in audio_devices
          /\ e.iter \in Registered
          /\ e.control = [is_running |-> TRUE, is_paused |-> FALSE]
    /\ \A p \in producers : now >= p.reg + DelaySecs => ENABLED ProducerPush(p)
    /\ producers = {} =>
          \A d \in audio_devices : Len(OfDevice(published, d)) = Cardinality(Registered)

C15_Witness ==
    /\ producers = {}
    /\ hist.via = "restart"
    /\ pc = "top"
    /\ \A d \in audio_devices : Len(OfDevice(published, d)) = 2
    /\ \E e \in SeqRange(published) : e.iter = 2 /\ e.reg < DelaySecs

\* C13: the status snapshot maps every enumerated device to not running and
\* not paused, except exactly the selected devices (those listed, or the
\* defaults when none is listed), which are running; with audio disabled no
\* device is running.
C13_StatusSnapshot ==
    pc # "main" =>
        LET selected == IF cli.disable_audio THEN {}
                        ELSE IF cli.audio_device # {} THEN cli.audio_device
                        ELSE default_devices
        IN  /\ all_audio_devices \cup selected = DOMAIN devices_status
            /\ \A d \in DOMAIN devices_status :
                  /\ ~devices_status[d].is_paused
                  /\ devices_status[d].is_running <=> d \in selected
            /\ cli.disable_audio =>
                  \A d \in DOMAIN devices_status : ~devices_status[d].is_running

C13_Witness ==
    /\ pc # "main"
    /\ all_audio_devices = {"default_input", "usb_mic"}
    /\ cli = [disable_audio |-> FALSE, audio_device |-> {"usb_mic"}]
    /\ devices_status["usb_mic"].is_running
    /\ ~devices_status["default_input"].is_running

====
